---- MODULE Spec2Model ----
(***************************************************************************)
(* Model of the validation engine of cares-reporter:                       *)
(*   src/src/server/services/validate-data/index.js                        *)
(* (the orchestrator validateData and the validation helpers: predicate    *)
(* library, conditional combinators, validateFields, validateDocuments,    *)
(* validateSingleDocument).                                                *)
(*                                                                         *)
(* JavaScript values are modelled as tagged records.  Numbers are          *)
(* fixed-point integers counting thousandths, so that rounding to two      *)
(* decimals is a real operation.  Strings are tuples of one-character      *)
(* strings, so that parsing, formatting, lower-casing and zero-stripping   *)
(* are computed and not assumed.                                           *)
(***************************************************************************)
EXTENDS Integers, Sequences, FiniteSets

\* ------------------------------------------------------------------------
\* JavaScript values
\* ------------------------------------------------------------------------

\* Fixed-point resolution: a number n stands for n / Scale.
Scale == 10 * 10 * 10

\* Rounding unit of _.round(x, 2): one hundredth, in thousandths.
Cent == Scale \div (10 * 10)

Undefined == [t |-> "undefined"]

NaN == [t |-> "NaN"]

Num(n) == [t |-> "number", n |-> n]

Str(s) == [t |-> "string", s |-> s]

True == [t |-> "boolean", b |-> TRUE]

False == [t |-> "boolean", b |-> FALSE]

Bool(b) == IF b THEN True ELSE False

\* The outcome of a call that raised a TypeError instead of returning.
Throw == [t |-> "throw"]

IsNum(v) == v.t = "number"

IsStr(v) == v.t = "string"

\* ToBoolean: undefined, NaN, 0 and "" are falsy.
Truthy(v) ==
  CASE v.t = "undefined" -> FALSE
    [] v.t = "NaN" -> FALSE
    [] v.t = "number" -> v.n # 0
    [] v.t = "string" -> Len(v.s) > 0
    [] v.t = "boolean" -> v.b
    [] OTHER -> TRUE

\* a || b
Or(a, b) == IF Truthy(a) THEN a ELSE b

\* content[key]: the own property, or undefined.
Get(content, key) == IF key \in DOMAIN content THEN content[key] ELSE Undefined

\* ------------------------------------------------------------------------
\* Characters and strings
\* ------------------------------------------------------------------------

DigitChars == <<"0", "1", "2", "3", "4", "5", "6", "7", "8", "9">>

UpperChars == <<"A", "B", "C", "D", "E", "F", "G", "H", "I", "J", "K", "L", "M",
                "N", "O", "P", "Q", "R", "S", "T", "U", "V", "W", "X", "Y", "Z">>

LowerChars == <<"a", "b", "c", "d", "e", "f", "g", "h", "i", "j", "k", "l", "m",
                "n", "o", "p", "q", "r", "s", "t", "u", "v", "w", "x", "y", "z">>

DigitVal(c) == (CHOOSE i \in DOMAIN DigitChars : DigitChars[i] = c) - 1

ToLowerChar(c) ==
  IF \E i \in DOMAIN UpperChars : UpperChars[i] = c
    THEN LowerChars[CHOOSE i \in DOMAIN UpperChars : UpperChars[i] = c]
    ELSE c

\* String.prototype.toLowerCase
ToLowerCase(s) == [i \in DOMAIN s |-> ToLowerChar(s[i])]

\* s.slice(i - 1): the suffix of s starting at position i (1-based).
Drop(s, i) == IF i > Len(s) THEN <<>> ELSE SubSeq(s, i, Len(s))

\* Number of consecutive characters of s, from position i on, that lie in cs.
RECURSIVE RunLen(_, _, _)
RunLen(s, i, cs) ==
  IF i <= Len(s) /\ s[i] \in cs THEN 1 + RunLen(s, i + 1, cs) ELSE 0

Digits == {DigitChars[i] : i \in DOMAIN DigitChars}

\* s.replace(/^0*/, "")
StripLeadingZeros(s) == Drop(s, RunLen(s, 1, {"0"}) + 1)

TrimStart(s) == Drop(s, RunLen(s, 1, {" "}) + 1)

RECURSIVE TrimEnd(_)
TrimEnd(s) ==
  IF Len(s) > 0 /\ s[Len(s)] = " " THEN TrimEnd(SubSeq(s, 1, Len(s) - 1)) ELSE s

\* Value of the n decimal digits of s that start at position i.
RECURSIVE DigitsValue(_, _, _)
DigitsValue(s, i, n) ==
  IF n = 0 THEN 0 ELSE DigitsValue(s, i, n - 1) * 10 + DigitVal(s[i + n - 1])

\* The fraction digits s[i .. i+n-1] in thousandths (further digits are cut).
FracValue(s, i, n) ==
  LET d(k) == IF k <= n THEN DigitVal(s[i + k - 1]) ELSE 0
  IN  d(1) * (Scale \div 10) + d(2) * (Scale \div (10 * 10)) + d(3)

\* The decimal literal [+-]digits[.digits] at the start of t:
\* its length (0 when there is none) and its value.
DecimalPrefix(t) ==
  LET sgn   == IF Len(t) > 0 /\ t[1] \in {"-", "+"} THEN 1 ELSE 0
      neg   == sgn = 1 /\ t[1] = "-"
      nInt  == RunLen(t, sgn + 1, Digits)
      dot   == sgn + nInt + 1
      hasDot == dot <= Len(t) /\ t[dot] = "."
      nFrac == IF hasDot THEN RunLen(t, dot + 1, Digits) ELSE 0
      mag   == DigitsValue(t, sgn + 1, nInt) * Scale + FracValue(t, dot + 1, nFrac)
  IN  IF nInt + nFrac = 0
        THEN [len |-> 0, n |-> 0]
        ELSE [len |-> sgn + nInt + (IF hasDot THEN 1 + nFrac ELSE 0),
              n   |-> IF neg THEN 0 - mag ELSE mag]

\* Decimal digits of the natural number n.
RECURSIVE NatToString(_)
NatToString(n) ==
  IF n < 10 THEN <<DigitChars[n + 1]>>
            ELSE Append(NatToString(n \div 10), DigitChars[(n % 10) + 1])

\* Number.prototype.toString for a fixed-point number: no trailing zeros,
\* no decimal point for an integer.
NumberToString(n) ==
  LET mag  == IF n < 0 THEN 0 - n ELSE n
      frac == mag % Scale
      d1   == frac \div (Scale \div 10)
      d2   == (frac \div Cent) % 10
      d3   == frac % 10
      fs   == IF frac = 0 THEN <<>>
              ELSE IF d3 # 0 THEN <<".", DigitChars[d1 + 1], DigitChars[d2 + 1], DigitChars[d3 + 1]>>
              ELSE IF d2 # 0 THEN <<".", DigitChars[d1 + 1], DigitChars[d2 + 1]>>
              ELSE <<".", DigitChars[d1 + 1]>>
  IN  (IF n < 0 THEN <<"-">> ELSE <<>>) \o NatToString(mag \div Scale) \o fs

\* String(v), `${v}`
JsString(v) ==
  CASE v.t = "string" -> v.s
    [] v.t = "number" -> NumberToString(v.n)
    [] v.t = "NaN" -> <<"N", "a", "N">>
    [] v.t = "undefined" -> <<"u", "n", "d", "e", "f", "i", "n", "e", "d">>
    [] v.t = "boolean" -> IF v.b THEN <<"t", "r", "u", "e">> ELSE <<"f", "a", "l", "s", "e">>

\* parseFloat(v): the longest decimal prefix of the trimmed string, else NaN.
ParseFloat(v) ==
  LET p == DecimalPrefix(TrimStart(JsString(v)))
  IN  IF p.len = 0 THEN NaN ELSE Num(p.n)

\* Number(v): the whole trimmed string must be a decimal literal; "" is 0.
ToNumber(v) ==
  CASE v.t = "number" -> v
    [] v.t = "NaN" -> NaN
    [] v.t = "undefined" -> NaN
    [] v.t = "boolean" -> Num(IF v.b THEN Scale ELSE 0)
    [] v.t = "string" ->
         LET t == TrimEnd(TrimStart(v.s))
             p == DecimalPrefix(t)
         IN  IF t = <<>> THEN Num(0)
             ELSE IF p.len = Len(t) /\ p.len > 0 THEN Num(p.n) ELSE NaN

\* a + b on numbers
Add(a, b) == IF IsNum(a) /\ IsNum(b) THEN Num(a.n + b.n) ELSE NaN

\* Math.round in hundredths: floor(x + 0.5), halves go up.
RoundHalfUp(n) == ((n + (Cent \div 2)) \div Cent) * Cent

\* _.round(v, 2)
Round2(v) ==
  LET x == ToNumber(v) IN IF IsNum(x) THEN Num(RoundHalfUp(x.n)) ELSE NaN

\* a == b on two numbers (NaN equals nothing)
NumEq(a, b) == IsNum(a) /\ IsNum(b) /\ a.n = b.n

\* ------------------------------------------------------------------------
\* Objects: records, contexts, the dropdown table
\* ------------------------------------------------------------------------

\* {} : the object without properties.
EmptyObject == [k \in {} |-> Undefined]

Has(obj, key) == key \in DOMAIN obj

\* An array of JavaScript values or names.
Includes(array, x) == \E i \in DOMAIN array : array[i] = x

\* _.isNumber(v): typeof v == "number", NaN included.
IsNumberType(v) == v.t \in {"number", "NaN"}

\* _.isEmpty(v): a string is empty when its length is 0; numbers, booleans
\* and undefined have no own enumerable properties and are empty.
IsEmpty(v) == IF IsStr(v) THEN Len(v.s) = 0 ELSE TRUE

\* x || 0.0 on the result of parseFloat or Number
OrZero(x) == IF IsNum(x) /\ x.n # 0 THEN x ELSE Num(0)

\* ------------------------------------------------------------------------
\* Predicate library.  A predicate returns True, False or Throw.
\* ------------------------------------------------------------------------

isNotBlank(val) == Bool(IsNumberType(val) \/ ~IsEmpty(val))

isNumber(val) == Bool(IsNumberType(val))

isNumberOrBlank(val) == Bool(IsEmpty(val) \/ IsNumberType(val))

isPositiveNumber(val) == Bool(IsNum(val) /\ val.n > 0)

FiftyK == 50 * Scale * Scale

isAtLeast50K(val) == Bool(IsNum(val) /\ val.n >= FiftyK)

isEqual(column, val, content) ==
  LET f1 == OrZero(ParseFloat(val))
      f2 == OrZero(ParseFloat(Get(content, column)))
      d  == f1.n - f2.n
  IN  Bool((IF d < 0 THEN 0 - d ELSE d) < Cent)

\* The _.reduce of isSum over columns[1..n]: falsy names are skipped.
RECURSIVE SumColumns(_, _, _)
SumColumns(columns, n, content) ==
  IF n = 0 THEN Num(0)
  ELSE LET acc == SumColumns(columns, n - 1, content)
           c   == columns[n]
       IN  IF c = "" THEN acc
           ELSE Add(acc, OrZero(ParseFloat(Get(content, c))))

\* isSum with the tolerance of isEqual instead of rounding.
isSum_EpsilonBand(columns, val, content) ==
  LET sum == SumColumns(columns, Len(columns), content)
      v   == OrZero(ToNumber(val))
      d   == v.n - sum.n
  IN  Bool((IF d < 0 THEN 0 - d ELSE d) < Cent)

isSum(columns, val, content) ==
  LET sum == Round2(SumColumns(columns, Len(columns), content))
      v   == Round2(OrZero(ToNumber(val)))
  IN  Bool(NumEq(v, sum))

\* The property name `current_${key}`.
CurrentKey(key) == "current_" \o key

\* _.filter(periodSummaries, filterPredicate): the filter is the _.matches
\* shorthand, an object whose properties the summary must all carry.
Matches(filterPredicate, summary) ==
  \A k \in DOMAIN filterPredicate :
    Has(summary, k) /\ summary[k] = filterPredicate[k]

RECURSIVE Filter(_, _)
Filter(summaries, filterPredicate) ==
  IF summaries = <<>> THEN <<>>
  ELSE LET rest == Filter(Tail(summaries), filterPredicate)
       IN  IF Matches(filterPredicate, Head(summaries))
             THEN <<Head(summaries)>> \o rest ELSE rest

\* One step of the reduce of cumulativeAmountIsEqual:
\*   (acc, s) => acc + Number(s) || 0.0
\* which JavaScript reads as (acc + Number(s)) || 0.0.
CumulativeStep(acc, s) == OrZero(Add(acc, ToNumber(s)))

RECURSIVE CumulativeReduce(_, _, _)
CumulativeReduce(amounts, n, initial) ==
  IF n = 0 THEN initial
  ELSE CumulativeStep(CumulativeReduce(amounts, n - 1, initial), amounts[n])

cumulativeAmountIsEqual(key, filterPredicate, val, content, context) ==
  LET currentPeriodAmount == OrZero(ToNumber(Get(content, key)))
      periodSummaries == IF Has(context, "periodSummaries")
                           THEN context.periodSummaries ELSE <<>>
      matching == Filter(periodSummaries, filterPredicate)
      amounts  == [i \in DOMAIN matching |-> Get(matching[i], CurrentKey(key))]
      sum      == CumulativeReduce(amounts, Len(amounts), currentPeriodAmount)
  IN  Bool(NumEq(Round2(val), Round2(sum)))

\* _.has(subrecipientsHash, val): the lookup is a set of identifiers.
isValidSubrecipient(val, context) ==
  Bool(Has(context, "subrecipientsHash") /\ JsString(val) \in context.subrecipientsHash)

Usa == <<"u", "s", "a">>

UnitedStates == <<"u", "n", "i", "t", "e", "d", " ", "s", "t", "a", "t", "e", "s">>

\* value == "usa" || value == "united states"
isUnitedStates(value) == IsStr(value) /\ (value.s = Usa \/ value.s = UnitedStates)

\* /^\d{5}(-\d{4})?$/.test(`${val}`)
isValidZip(val) ==
  LET s == JsString(val)
  IN  Bool(\/ Len(s) = 5 /\ RunLen(s, 1, Digits) = 5
           \/ Len(s) = 10 /\ RunLen(s, 1, Digits) = 5 /\ s[6] = "-"
                          /\ RunLen(s, 7, Digits) = 4)

\* fileParts[key].replace(...) raises when the context has no fileParts, when
\* fileParts has nothing under key, or when what it has is not a string.
matchesFilePart(key, val, context) ==
  IF ~Has(context, "fileParts") THEN Throw
  ELSE LET part == Get(context.fileParts, key)
       IN  IF ~IsStr(part) THEN Throw
           ELSE Bool(StripLeadingZeros(JsString(Or(val, Str(<<>>))))
                       = StripLeadingZeros(part.s))

numberIsLessThanOrEqual(key, val, content) ==
  LET other == Get(content, key)
  IN  Bool(IsNum(val) /\ IsNum(other) /\ val.n <= other.n)

numberIsGreaterThanOrEqual(key, val, content) ==
  LET other == Get(content, key)
  IN  Bool(IsNum(val) /\ IsNum(other) /\ val.n >= other.n)

\* The table getDropdownValues() returns: Undefined until initializeTemplates
\* has run, then an object mapping a list name to its lower-case entries.
\* val.toLowerCase() raises when val is not a string.
dropdownIncludes(key, val, allDropdowns) ==
  IF allDropdowns = Undefined THEN False
  ELSE IF ~IsStr(val) THEN Throw
  ELSE Bool(Includes(IF Has(allDropdowns, key) THEN allDropdowns[key] ELSE <<>>,
                     ToLowerCase(val.s)))

isValidState(val, allDropdowns) == dropdownIncludes("state code", val, allDropdowns)

\* content[key] > 0
GreaterThanZero(v) == LET x == ToNumber(v) IN IsNum(x) /\ x.n > 0

\* ------------------------------------------------------------------------
\* Validators.  A validator is a descriptor of the closure the library
\* builds: [p |-> name] plus the bound key, columns, filter or inner
\* validator.  Apply runs it and returns [ret, calls]: what it returned
\* (True, False or Throw) and the names of the predicates that were invoked,
\* in order.
\* ------------------------------------------------------------------------

RECURSIVE Apply(_, _, _, _, _)

\* The combinator named name hands over to its validator, whose outcome is
\* inner.
Delegate(name, inner) == [ret |-> inner.ret, calls |-> <<name>> \o inner.calls]

Vacuous(name) == [ret |-> True, calls |-> <<name>>]

\* !!content[key] || validator(val, content, context)
whenBlank(key, validator, val, content, context, allDropdowns) ==
  IF Truthy(Get(content, key)) THEN Vacuous("whenBlank")
  ELSE Delegate("whenBlank", Apply(validator, val, content, context, allDropdowns))

\* !content[key] || validator(val, content, context)
whenNotBlank(key, validator, val, content, context, allDropdowns) ==
  IF ~Truthy(Get(content, key)) THEN Vacuous("whenNotBlank")
  ELSE Delegate("whenNotBlank", Apply(validator, val, content, context, allDropdowns))

\* !isUnitedStates(content[key]) || validator(val, content, context)
whenUS(key, validator, val, content, context, allDropdowns) ==
  IF ~isUnitedStates(Get(content, key)) THEN Vacuous("whenUS")
  ELSE Delegate("whenUS", Apply(validator, val, content, context, allDropdowns))

\* content[key] > 0 ? validator(val, content, context) : true
whenGreaterThanZero(key, validator, val, content, context, allDropdowns) ==
  IF GreaterThanZero(Get(content, key))
    THEN Delegate("whenGreaterThanZero", Apply(validator, val, content, context, allDropdowns))
    ELSE Vacuous("whenGreaterThanZero")

Leaf(name, ret) == [ret |-> ret, calls |-> <<name>>]

Apply(validator, val, content, context, allDropdowns) ==
  LET p == validator.p
  IN  CASE p = "isNotBlank" -> Leaf(p, isNotBlank(val))
        [] p = "isNumber" -> Leaf(p, isNumber(val))
        [] p = "isNumberOrBlank" -> Leaf(p, isNumberOrBlank(val))
        [] p = "isPositiveNumber" -> Leaf(p, isPositiveNumber(val))
        [] p = "isAtLeast50K" -> Leaf(p, isAtLeast50K(val))
        [] p = "isEqual" -> Leaf(p, isEqual(validator.key, val, content))
        [] p = "isSum" -> Leaf(p, isSum(validator.columns, val, content))
        [] p = "cumulativeAmountIsEqual" ->
             Leaf(p, cumulativeAmountIsEqual(validator.key, validator.filter,
                                             val, content, context))
        [] p = "isValidSubrecipient" -> Leaf(p, isValidSubrecipient(val, context))
        [] p = "isValidState" -> Leaf(p, isValidState(val, allDropdowns))
        [] p = "isValidZip" -> Leaf(p, isValidZip(val))
        [] p = "matchesFilePart" -> Leaf(p, matchesFilePart(validator.key, val, context))
        [] p = "numberIsLessThanOrEqual" ->
             Leaf(p, numberIsLessThanOrEqual(validator.key, val, content))
        [] p = "numberIsGreaterThanOrEqual" ->
             Leaf(p, numberIsGreaterThanOrEqual(validator.key, val, content))
        [] p = "dropdownIncludes" ->
             Leaf(p, dropdownIncludes(validator.key, val, allDropdowns))
        [] p = "whenBlank" ->
             whenBlank(validator.key, validator.inner, val, content, context, allDropdowns)
        [] p = "whenNotBlank" ->
             whenNotBlank(validator.key, validator.inner, val, content, context, allDropdowns)
        [] p = "whenUS" ->
             whenUS(validator.key, validator.inner, val, content, context, allDropdowns)
        [] p = "whenGreaterThanZero" ->
             whenGreaterThanZero(validator.key, validator.inner, val, content, context,
                                 allDropdowns)

\* ------------------------------------------------------------------------
\* Messages.  A message is a sequence of pieces: literal text, the
\* placeholder {} or, once substituted, the characters of the value.
\* ------------------------------------------------------------------------

Lit(text) == [lit |-> text]

Hole == [hole |-> "{}"]

Shown(chars) == [shown |-> chars]

\* `Empty or invalid entry for ${key}: "{}"`
DefaultMessage(key) == <<Lit("Empty or invalid entry for " \o key \o ": \""), Hole, Lit("\"")>>

\* message.replace("{}", `${value || ""}`): the first placeholder only.
addValueToMessage(message, value) ==
  IF \E i \in DOMAIN message : message[i] = Hole
    THEN LET first == CHOOSE i \in DOMAIN message :
                        /\ message[i] = Hole
                        /\ \A j \in 1..(i - 1) : message[j] # Hole
         IN  [message EXCEPT ![first] = Shown(JsString(Or(value, Str(<<>>))))]
    ELSE message

\* messageValue(val, options) for a rule whose options do not set isDateValue.
messageValue(val, options) == val

\* new ValidationItem({ message, tab, row })
ValidationItem(message, tab, row) == [message |-> message, tab |-> tab, row |-> row]

\* ------------------------------------------------------------------------
\* Field validator executor and document-set validators
\* ------------------------------------------------------------------------

\* includeValidator letting every tagged rule through when the context has no
\* tags.
includeValidator_NoContextTags(options, context) ==
  IF ~Has(options, "tags") THEN TRUE
  ELSE IF ~Has(context, "tags") THEN TRUE
  ELSE \E i \in DOMAIN options.tags : Includes(context.tags, options.tags[i])

includeValidator(options, context) ==
  IF ~Has(options, "tags") THEN TRUE
  ELSE IF ~Has(context, "tags") THEN FALSE
  ELSE \E i \in DOMAIN options.tags : Includes(context.tags, options.tags[i])

\* const val = content[key] || ""
FieldValue(content, key) == Or(Get(content, key), Str(<<>>))

\* The result of a run: raised tells whether a predicate raised (the run then
\* returns nothing), valog is the returned list of findings, evals lists the
\* predicate evaluations made, in order.
NoFindings == [raised |-> FALSE, valog |-> <<>>, evals |-> <<>>]

\* What validateFields does with the outcome out of a rule's validator on
\* val: nothing when it holds, a finding when it fails; a raise ends the run.
Outcome(rule, val, out, tab, row) ==
  [raised |-> out.ret = Throw,
   valog  |-> IF out.ret = False
                THEN <<ValidationItem(
                         addValueToMessage(
                           IF Has(rule, "message") THEN rule.message
                                                   ELSE DefaultMessage(rule.key),
                           messageValue(val, rule.options)),
                         tab, row)>>
                ELSE <<>>,
   evals  |-> <<[key |-> rule.key, val |-> val, calls |-> out.calls]>>]

\* The validator of a rule on the value read for it.
Evaluate(rule, val, content, tab, row, context, allDropdowns) ==
  Outcome(rule, val, Apply(rule.validator, val, content, context, allDropdowns),
          tab, row)

\* The body of the forEach of validateFields for one rule.
ValidateField(rule, content, tab, row, context, allDropdowns) ==
  IF includeValidator(rule.options, context)
    THEN Evaluate(rule, FieldValue(content, rule.key), content, tab, row, context,
                  allDropdowns)
    ELSE NoFindings

\* The concatenation of seqs[1..n].
RECURSIVE ConcatAll(_, _)
ConcatAll(seqs, n) == IF n = 0 THEN <<>> ELSE ConcatAll(seqs, n - 1) \o seqs[n]

\* The steps of a loop run in order.  The first step that raises ends the
\* loop: the later steps do not run and the findings collected are lost.
InOrder(steps) ==
  LET raising == {i \in DOMAIN steps : steps[i].raised}
      last    == IF raising = {} THEN Len(steps)
                 ELSE CHOOSE i \in raising : \A j \in raising : i <= j
  IN  [raised |-> raising # {},
       valog  |-> IF raising # {} THEN <<>>
                  ELSE ConcatAll([i \in DOMAIN steps |-> steps[i].valog], Len(steps)),
       evals  |-> ConcatAll([i \in 1..last |-> steps[i].evals], last)]

\* requiredFields.forEach(...)
validateFields(requiredFields, content, tab, row, context, allDropdowns) ==
  InOrder([n \in DOMAIN requiredFields |->
             ValidateField(requiredFields[n], content, tab, row, context, allDropdowns)])

\* validateDocuments reporting every finding at the row of the first record.
validateDocuments_FirstRow(tab, validations, groupedDocuments, validateContext, allDropdowns) ==
  IF ~Has(groupedDocuments, tab) THEN NoFindings
  ELSE LET documents == groupedDocuments[tab]
       IN  InOrder([i \in DOMAIN documents |->
                      validateFields(validations, documents[i].content, tab,
                                     documents[1].sourceRow, validateContext,
                                     allDropdowns)])

\* _.flatMap(documents, ...): nothing for a tab without documents.
validateDocuments(tab, validations, groupedDocuments, validateContext, allDropdowns) ==
  IF ~Has(groupedDocuments, tab) THEN NoFindings
  ELSE LET documents == groupedDocuments[tab]
       IN  InOrder([i \in DOMAIN documents |->
                      validateFields(validations, documents[i].content, tab,
                                     documents[i].sourceRow, validateContext,
                                     allDropdowns)])

\* const row = 2
SingleDocumentRow == Num(2 * Scale)

\* validateSingleDocument reporting the record's own source row.
validateSingleDocument_SourceRow(tab, validations, message, groupedDocuments, validateContext, allDropdowns) ==
  IF Has(groupedDocuments, tab) /\ Len(groupedDocuments[tab]) = 1
        THEN validateFields(validations, groupedDocuments[tab][1].content, tab,
                            groupedDocuments[tab][1].sourceRow, validateContext,
                            allDropdowns)
        ELSE [raised |-> FALSE,
              valog  |-> <<ValidationItem(message, tab, Undefined)>>,
              evals  |-> <<>>]

validateSingleDocument(tab, validations, message, groupedDocuments, validateContext, allDropdowns) ==
  IF Has(groupedDocuments, tab) /\ Len(groupedDocuments[tab]) = 1
        THEN validateFields(validations, groupedDocuments[tab][1].content, tab,
                            SingleDocumentRow, validateContext, allDropdowns)
        ELSE [raised |-> FALSE,
              valog  |-> <<ValidationItem(message, tab, Undefined)>>,
              evals  |-> <<>>]

\* ------------------------------------------------------------------------
\* Orchestrator
\* ------------------------------------------------------------------------

\* The documents of one type, in their order.
RECURSIVE OfType(_, _)
OfType(documents, type) ==
  IF documents = <<>> THEN <<>>
  ELSE IF Head(documents).type = type
    THEN <<Head(documents)>> \o OfType(Tail(documents), type)
    ELSE OfType(Tail(documents), type)

\* _.groupBy(documents, "type")
GroupBy(documents) ==
  [type \in {documents[i].type : i \in DOMAIN documents} |-> OfType(documents, type)]

\* getSubrecipientsHash(groupedDocuments.subrecipient): the identifiers of
\* the subrecipient records.
getSubrecipientsHash(groupedDocuments) ==
  IF Has(groupedDocuments, "subrecipient")
    THEN {JsString(Get(groupedDocuments["subrecipient"][i].content, "identification number")) :
            i \in DOMAIN groupedDocuments["subrecipient"]}
    ELSE {}

\* The validateContext object of validateData; tags is present only when the
\* reporting period carries validation_rule_tags.
ValidateContext(groupedDocuments, fileParts, reportingPeriod, periodSummaries) ==
  LET base == [fileParts |-> fileParts,
               subrecipientsHash |-> getSubrecipientsHash(groupedDocuments),
               periodSummaries |-> periodSummaries]
  IN  IF Has(reportingPeriod, "validation_rule_tags")
        THEN [f \in DOMAIN base \cup {"tags"} |->
                IF f = "tags" THEN reportingPeriod.validation_rule_tags ELSE base[f]]
        ELSE base

\* One entry of the catalog: a tab module exports a document-set validator.
TabValidator(tabValidator, groupedDocuments, validateContext, allDropdowns) ==
  IF tabValidator.kind = "validateSingleDocument"
    THEN validateSingleDocument(tabValidator.tab, tabValidator.validations,
                                tabValidator.message, groupedDocuments,
                                validateContext, allDropdowns)
    ELSE validateDocuments(tabValidator.tab, tabValidator.validations,
                           groupedDocuments, validateContext, allDropdowns)

\* _.take(array, n)
TakeLimit == 100

Take(array, n) == IF Len(array) <= n THEN array ELSE SubSeq(array, 1, n)

\* The tab's findings flattened without the _.take.
TakeFindings_Untruncated(run) == run

\* _.take(tabValidator(groupedDocuments, validateContext), 100)
TakeFindings(run) ==
  IF run.raised THEN run ELSE [run EXCEPT !.valog = Take(run.valog, TakeLimit)]

\* _.flatMap(tabValidators, tabValidator => _.take(..., 100))
validateData(documents, fileParts, reportingPeriod, periodSummaries, tabValidators, allDropdowns) ==
  LET groupedDocuments == GroupBy(documents)
      validateContext == ValidateContext(groupedDocuments, fileParts, reportingPeriod,
                                         periodSummaries)
  IN  InOrder([n \in DOMAIN tabValidators |->
                 TakeFindings(TabValidator(tabValidators[n], groupedDocuments,
                                           validateContext, allDropdowns))])

\* ------------------------------------------------------------------------
\* Bounds and input domains
\* ------------------------------------------------------------------------

\* Amounts of isSum range over -MaxAmount..MaxAmount thousandths.
MaxAmount == 4

\* Longest rule list handed to validateFields.
MaxRules == 2

\* Most records of one tab handed to the document-set validators.
MaxDocs == 3

\* Most period summaries in a context.
MaxSummaries == 2

\* Most validateData runs of one request (the first run and its retries).
MaxRuns == 2

\* Records of the large tab handed to validateData, beyond a third of the limit.
ExtraDocs == 1

SeqsUpTo(S, n) == UNION {[1..k -> S] : k \in 0..n}

\* A property that an object does not have.
Absent == [t |-> "absent"]

\* The object with the properties of f that are not Absent.
Object(f) == [k \in {x \in DOMAIN f : f[x] # Absent} |-> f[k]]

Text_George == Str(<<"G", "e", "o", "r", "g", "e">>)

Text_Empty == Str(<<>>)

Text_usa == Str(Usa)

Text_USA == Str(<<"U", "S", "A">>)

Text_UnitedStates == Str(<<"U", "n", "i", "t", "e", "d", " ", "S", "t", "a", "t", "e", "s">>)

Text_unitedstates == Str(UnitedStates)

Text_canada == Str(<<"c", "a", "n", "a", "d", "a">>)

Text_TX == Str(<<"T", "X">>)

Text_tx == Str(<<"t", "x">>)

Text_007 == Str(<<"0", "0", "7">>)

Text_7 == Str(<<"7">>)

Text_zip == Str(<<"7", "8", "7", "0", "1">>)

Text_na == Str(<<"n", "/", "a">>)

\* The table initializeTemplates loads.
DropdownTable == [k \in {"state code"} |-> <<Text_tx.s, <<"c", "a">>>>]

FullContext ==
  [fileParts |-> [projectId |-> Text_7],
   subrecipientsHash |-> {Text_007.s},
   periodSummaries |-> <<>>]

\* A context whose file name carried no project id.
NoProjectContext == [FullContext EXCEPT !.fileParts = EmptyObject]

WithTags(context, tags) ==
  [f \in DOMAIN context \cup {"tags"} |-> IF f = "tags" THEN tags ELSE context[f]]

VARIABLES
  op,            \* the operation that ran last, "none" between requests
  args,          \* its arguments
  result,        \* what it returned
  allDropdowns,  \* the global table getDropdownValues() returns
  seen,          \* that table as the last call found it
  runs           \* the results of the validateData runs of this request

vars == <<op, args, result, allDropdowns, seen, runs>>

Init ==
  /\ op = "none"
  /\ args = <<>>
  /\ result = <<>>
  /\ allDropdowns = Undefined
  /\ seen = Undefined
  /\ runs = <<>>

Idle == op = "none"

Call(name, a, r) ==
  /\ op' = name
  /\ args' = a
  /\ result' = r
  /\ seen' = allDropdowns
  /\ UNCHANGED <<allDropdowns, runs>>

\* initializeTemplates(): the table is loaded once, at any moment between
\* two synchronous calls.
InitializeTemplates ==
  /\ allDropdowns = Undefined
  /\ allDropdowns' = DropdownTable
  /\ UNCHANGED <<op, args, result, seen, runs>>

\* The request is over.
Return ==
  /\ ~Idle
  /\ op' = "none"
  /\ args' = <<>>
  /\ result' = <<>>
  /\ runs' = <<>>
  /\ seen' = Undefined
  /\ UNCHANGED allDropdowns

\* ---- isSum ----

Amounts == (0 - MaxAmount)..MaxAmount \cup {40 * Scale, 60 * Scale}

SumValues ==
  (0 - (2 * MaxAmount + Cent + 1))..(2 * MaxAmount + Cent + 1)
    \cup {90 * Scale, 100 * Scale}

\* An amount as the spreadsheet reader hands it over: a number or its
\* decimal string.
Encode(form, n) == IF form = "string" THEN Str(NumberToString(n)) ELSE Num(n)

\* What the column amount2 holds: an amount, nothing, or text.
SecondColumns == {[kind |-> "amount", n |-> n] : n \in Amounts}
                   \cup {[kind |-> "missing", n |-> 0], [kind |-> "text", n |-> 0]}

SecondColumn(form, b) ==
  CASE b.kind = "amount" -> Encode(form, b.n)
    [] b.kind = "missing" -> Absent
    [] b.kind = "text" -> Text_na

\* How the amounts are written and which columns are named.
SumShapes ==
  {[form |-> "number", columns |-> <<"amount1", "amount2">>],
   [form |-> "string", columns |-> <<"amount1", "amount2">>],
   [form |-> "number", columns |-> <<"amount1", "", "amount2">>]}

CallIsSum ==
  /\ Idle
  /\ \E a \in Amounts, b \in SecondColumns, v \in SumValues, shape \in SumShapes :
       LET content == Object([amount1 |-> Encode(shape.form, a),
                              amount2 |-> SecondColumn(shape.form, b)])
           val == Encode(shape.form, v)
       IN  Call("isSum",
                [columns |-> shape.columns, val |-> val, content |-> content,
                 a |-> a, b |-> b, v |-> v, form |-> shape.form],
                Apply([p |-> "isSum", columns |-> shape.columns], val, content,
                      FullContext, allDropdowns))

\* ---- cumulativeAmountIsEqual ----

\* Prior-period summaries: of project "a" or "b", with a numeric
\* current_amount, with text in it, or without one.
SummaryKinds ==
  {[project |-> "a", current_amount |-> Num(30 * Scale)],
   [project |-> "a", current_amount |-> Str(<<"2", "0">>)],
   [project |-> "a", current_amount |-> Text_na],
   [project |-> "a"],
   [project |-> "b", current_amount |-> Num(30 * Scale)]}

CumulativeValues ==
  {Num(0), Num(30 * Scale), Num(50 * Scale), Num(80 * Scale), Num(80 * Scale - Cent),
   Num(100 * Scale), Text_Empty}

CallCumulativeAmountIsEqual ==
  /\ Idle
  /\ \E amount \in {Absent, Num(50 * Scale), Text_na},
        val \in CumulativeValues,
        periodSummaries \in SeqsUpTo(SummaryKinds, MaxSummaries) :
       LET content == Object([amount |-> amount])
           context == [FullContext EXCEPT !.periodSummaries = periodSummaries]
           filter  == [project |-> "a"]
       IN  Call("cumulativeAmountIsEqual",
                [key |-> "amount", filter |-> filter, val |-> val,
                 content |-> content, context |-> context],
                Apply([p |-> "cumulativeAmountIsEqual", key |-> "amount",
                       filter |-> filter],
                      val, content, context, allDropdowns))

\* ---- the predicates and combinators, called directly ----

LeafValidators ==
  {[p |-> "isNotBlank"], [p |-> "isNumber"], [p |-> "isNumberOrBlank"],
   [p |-> "isPositiveNumber"], [p |-> "isAtLeast50K"],
   [p |-> "isEqual", key |-> "total"],
   [p |-> "isValidSubrecipient"], [p |-> "isValidState"], [p |-> "isValidZip"],
   [p |-> "matchesFilePart", key |-> "projectId"],
   [p |-> "numberIsLessThanOrEqual", key |-> "total"],
   [p |-> "numberIsGreaterThanOrEqual", key |-> "total"],
   [p |-> "dropdownIncludes", key |-> "state code"],
   [p |-> "dropdownIncludes", key |-> "contract type"]}

InnerValidators ==
  {[p |-> "isNotBlank"], [p |-> "isValidState"],
   [p |-> "whenBlank", key |-> "total", inner |-> [p |-> "isNumber"]]}

Combinators ==
  {[p |-> "whenBlank", key |-> "total", inner |-> v] : v \in InnerValidators}
    \cup {[p |-> "whenNotBlank", key |-> "total", inner |-> v] : v \in InnerValidators}
    \cup {[p |-> "whenUS", key |-> "country", inner |-> v] : v \in InnerValidators}
    \cup {[p |-> "whenGreaterThanZero", key |-> "total", inner |-> v] : v \in InnerValidators}

FieldValues ==
  {Text_Empty, Text_George, Text_TX, Text_tx, Text_007, Text_zip,
   Num(7 * Scale), Num(0 - 100 * Scale), Num(FiftyK)}

Countries ==
  {Absent, Text_Empty, Text_usa, Text_USA, Text_UnitedStates, Text_unitedstates,
   Text_canada}

Totals == {Absent, Num(0), Num(7 * Scale), Str(<<"5">>)}

CallPredicate ==
  /\ Idle
  /\ \E validator \in LeafValidators \cup Combinators,
        val \in FieldValues, country \in Countries, total \in Totals,
        context \in {EmptyObject, FullContext, NoProjectContext} :
       LET content == Object([country |-> country, total |-> total])
       IN  Call("predicate",
                [validator |-> validator, val |-> val, content |-> content,
                 context |-> context],
                Apply(validator, val, content, context, allDropdowns))

\* ---- validateFields ----

AmountMessage == <<Lit("Amount \""), Hole, Lit("\" is required")>>

RuleName == [key |-> "name", validator |-> [p |-> "isNotBlank"], options |-> EmptyObject]

RuleAmount == [key |-> "amount", validator |-> [p |-> "isNotBlank"], options |-> EmptyObject]

RuleAmountX ==
  [key |-> "amount", validator |-> [p |-> "isNotBlank"], message |-> AmountMessage,
   options |-> [tags |-> <<"X">>]]

RuleStateXZ ==
  [key |-> "state", validator |-> [p |-> "isValidState"],
   options |-> [tags |-> <<"X", "Z">>]]

RuleState == [key |-> "state", validator |-> [p |-> "isValidState"], options |-> EmptyObject]

RuleNameNoTag ==
  [key |-> "name", validator |-> [p |-> "isNotBlank"],
   message |-> <<Lit("Name is required")>>, options |-> [tags |-> <<>>]]

Rules == {RuleName, RuleAmount, RuleAmountX, RuleStateXZ, RuleNameNoTag}

FieldContents ==
  {Object([name |-> n, amount |-> a, state |-> st]) :
     n \in {Absent, Text_Empty, Text_George},
     a \in {Absent, Num(0), Num(5 * Scale + 5 * Cent)},
     st \in {Text_TX, Num(7 * Scale)}}

FieldContexts ==
  {EmptyObject, FullContext}
    \cup {WithTags(FullContext, tags) : tags \in {<<>>, <<"Y">>, <<"X">>, <<"Y", "X">>}}

CallValidateFields ==
  /\ Idle
  /\ \E requiredFields \in SeqsUpTo(Rules, MaxRules),
        content \in FieldContents, context \in FieldContexts :
       Call("validateFields",
            [requiredFields |-> requiredFields, content |-> content, tab |-> "Test",
             row |-> Num(5 * Scale), context |-> context],
            validateFields(requiredFields, content, "Test", Num(5 * Scale), context,
                           allDropdowns))

\* ---- validateDocuments and validateSingleDocument ----

DocContents ==
  {[name |-> Text_Empty, amount |-> Num(5 * Scale)],
   [name |-> Text_George],
   [name |-> Text_George, amount |-> Num(0), state |-> Num(7 * Scale)]}

\* A record of a tab; the first data row of a sheet is row 3 here, so that
\* no source row is the fixed row of validateSingleDocument.
Document(type, content, i, numbered) ==
  [type |-> type, content |-> content,
   sourceRow |-> IF numbered THEN Num((i + 2) * Scale) ELSE Undefined]

DocValidations ==
  {<<>>, <<RuleName>>, <<RuleName, RuleAmount>>, <<RuleAmount, RuleName, RuleAmountX>>,
   <<RuleName, RuleState>>}

CoverDocument == Document("cover", [name |-> Text_George], 1, TRUE)

\* The grouped documents: the cover tab has its record, the tab test has the
\* given records and no entry at all when there are none.
Grouped(contents, numbered) ==
  LET documents == [i \in DOMAIN contents |-> Document("test", contents[i], i, numbered)]
  IN  IF contents = <<>> THEN [cover |-> <<CoverDocument>>]
      ELSE [cover |-> <<CoverDocument>>, test |-> documents]

SingleMessage == <<Lit("Spreadsheet must have exactly one \"test\" tab")>>

DocContexts == {EmptyObject, WithTags(FullContext, <<"X">>)}

CallValidateDocuments ==
  /\ Idle
  /\ \E contents \in SeqsUpTo(DocContents, MaxDocs), numbered \in BOOLEAN,
        validations \in DocValidations, context \in DocContexts,
        tab \in {"test", "loans"} :
       LET groupedDocuments == Grouped(contents, numbered)
       IN  Call("validateDocuments",
                [tab |-> tab, validations |-> validations,
                 groupedDocuments |-> groupedDocuments, context |-> context],
                validateDocuments(tab, validations, groupedDocuments, context,
                                  allDropdowns))

CallValidateSingleDocument ==
  /\ Idle
  /\ \E contents \in SeqsUpTo(DocContents, MaxDocs), numbered \in BOOLEAN,
        validations \in DocValidations, context \in DocContexts,
        tab \in {"test", "loans"} :
       LET groupedDocuments == Grouped(contents, numbered)
       IN  Call("validateSingleDocument",
                [tab |-> tab, validations |-> validations, message |-> SingleMessage,
                 groupedDocuments |-> groupedDocuments, context |-> context],
                validateSingleDocument(tab, validations, SingleMessage,
                                       groupedDocuments, context, allDropdowns))

\* ---- validateData ----

\* Longest catalog of tab validators.
MaxTabs == 2

RuleDescription ==
  [key |-> "description", validator |-> [p |-> "isNotBlank"],
   message |-> <<Lit("Description is required")>>, options |-> EmptyObject]

CoverMessage == <<Lit("Spreadsheet must have exactly one \"cover\" tab")>>

\* The tab modules of the catalog: each exports a document-set validator.
TabValidators ==
  {[kind |-> "validateSingleDocument", tab |-> "cover",
    validations |-> <<RuleName, RuleState>>, message |-> CoverMessage],
   [kind |-> "validateDocuments", tab |-> "test",
    validations |-> <<RuleName, RuleAmountX>>],
   [kind |-> "validateDocuments", tab |-> "test",
    validations |-> <<RuleName, RuleAmount, RuleDescription>>]}

\* A catalog lists each of its tab validators once.
Catalogs ==
  {c \in SeqsUpTo(TabValidators, MaxTabs) \ {<<>>} :
     \A i, j \in DOMAIN c : c[i] = c[j] => i = j}

\* Sizes of the tab test: none, a third of the limit of findings, and more.
TestTabSizes == {0, TakeLimit \div 3, (TakeLimit \div 3) + ExtraDocs}

\* An upload: the cover records first, then n blank records of the tab test.
Upload(covers, n) ==
  [i \in 1..covers |-> Document("cover", [name |-> Text_Empty, state |-> Text_TX], i, TRUE)]
    \o [i \in 1..n |-> Document("test", [name |-> Text_Empty], i, TRUE)]

ReportingPeriods == {EmptyObject, [validation_rule_tags |-> <<"X">>]}

CallValidateData ==
  /\ Idle
  /\ \E covers \in 0..2, n \in TestTabSizes, reportingPeriod \in ReportingPeriods,
        tabValidators \in Catalogs :
       LET a == [documents |-> Upload(covers, n),
                 fileParts |-> [projectId |-> Text_7],
                 reportingPeriod |-> reportingPeriod,
                 periodSummaries |-> <<>>,
                 tabValidators |-> tabValidators]
       IN  /\ op' = "validateData"
           /\ args' = a
           /\ result' = validateData(a.documents, a.fileParts, a.reportingPeriod,
                                     a.periodSummaries, a.tabValidators, allDropdowns)
           /\ runs' = <<result'>>
           /\ seen' = allDropdowns
           /\ UNCHANGED allDropdowns

\* The caller retries the whole request: validateData runs again on the same
\* arguments.
RetryValidateData ==
  /\ op = "validateData"
  /\ Len(runs) < MaxRuns
  /\ result' = validateData(args.documents, args.fileParts, args.reportingPeriod,
                            args.periodSummaries, args.tabValidators, allDropdowns)
  /\ runs' = Append(runs, result')
  /\ seen' = allDropdowns
  /\ UNCHANGED <<op, args, allDropdowns>>

Next ==
  \/ InitializeTemplates
  \/ Return
  \/ CallIsSum
  \/ CallCumulativeAmountIsEqual
  \/ CallPredicate
  \/ CallValidateFields
  \/ CallValidateDocuments
  \/ CallValidateSingleDocument
  \/ CallValidateData
  \/ RetryValidateData

Spec == Init /\ [][Next]_vars
\* ------------------------------------------------------------------------
\* Properties
\* ------------------------------------------------------------------------

Min(a, b) == IF a <= b THEN a ELSE b

Abs(n) == IF n < 0 THEN 0 - n ELSE n

SetOf(array) == {array[i] : i \in DOMAIN array}

\* ---- C1 ----

\* The findings of the k-th tab validator of the run in args.
TabFindings(k) ==
  LET grouped == GroupBy(args.documents)
  IN  TabValidator(args.tabValidators[k], grouped,
                   ValidateContext(grouped, args.fileParts, args.reportingPeriod,
                                   args.periodSummaries),
                   seen).valog

\* Number of findings the tab validators before the k-th contribute.
RECURSIVE Offset(_)
Offset(k) == IF k = 1 THEN 0 ELSE Offset(k - 1) + Min(Len(TabFindings(k - 1)), TakeLimit)

\* C1: the output of validateData is, tab validator after tab validator in
\* catalog order, the first min(n, 100) of the n findings of the tab validator
\* in their order; nothing else is in it.
TruncatedTabsAreConcatenated ==
  (op = "validateData" /\ ~result.raised) =>
    LET tabs == DOMAIN args.tabValidators
    IN  /\ Len(result.valog) = Offset(Len(args.tabValidators) + 1)
        /\ \A k \in tabs :
             LET findings == TabFindings(k)
                 kept     == Min(Len(findings), TakeLimit)
                 before   == Offset(k)
             IN  SubSeq(result.valog, before + 1, before + kept)
                   = SubSeq(findings, 1, kept)

\* C1 witness: a tab with more than 100 findings is cut, and the tab after it
\* still contributes its findings.
TruncatedTabThenAnotherTab ==
  /\ op = "validateData"
  /\ ~result.raised
  /\ Len(args.tabValidators) = 2
  /\ Len(TabFindings(1)) > TakeLimit
  /\ Len(TabFindings(2)) > 0
  /\ args.tabValidators[2].tab # args.tabValidators[1].tab
  /\ Len(result.valog) = TakeLimit + Len(TabFindings(2))

\* ---- C2 ----

\* The rule declares no tags, or shares a tag with the context.
Applicable(rule, context) ==
  \/ ~Has(rule.options, "tags")
  \/ /\ Has(context, "tags")
     /\ SetOf(rule.options.tags) \cap SetOf(context.tags) # {}

\* The positions of the rules of a list that apply, in order.
RECURSIVE ApplicableRules(_, _, _)
ApplicableRules(rules, n, context) ==
  IF n = 0 THEN <<>>
  ELSE ApplicableRules(rules, n - 1, context)
         \o (IF Applicable(rules[n], context) THEN <<n>> ELSE <<>>)

IsPrefix(a, b) == Len(a) <= Len(b) /\ \A i \in DOMAIN a : a[i] = b[i]

\* C2: validateFields evaluates exactly the rules that declare no tags or
\* share a tag with the context, in rule order, and a rule it skips yields no
\* finding (a run that a predicate ends has evaluated a prefix of them).
TagsGateRules ==
  op = "validateFields" =>
    LET expected  == ApplicableRules(args.requiredFields, Len(args.requiredFields),
                                     args.context)
        wanted    == [i \in DOMAIN expected |-> args.requiredFields[expected[i]].key]
        evaluated == [i \in DOMAIN result.evals |-> result.evals[i].key]
    IN  /\ IsPrefix(evaluated, wanted)
        /\ ~result.raised => evaluated = wanted
        /\ Len(result.valog) <= Len(result.evals)

\* C2 witness: a rule tagged X is skipped under the context tags {Y} although
\* its field is blank, and the untagged rule after it is evaluated.
TaggedRuleSkipped ==
  /\ op = "validateFields"
  /\ args.requiredFields = <<RuleAmountX, RuleName>>
  /\ Has(args.context, "tags")
  /\ args.context.tags = <<"Y">>
  /\ ~Has(args.content, "amount")
  /\ Len(result.evals) = 1
  /\ result.evals[1].key = "name"

\* ---- C3 ----

RecordCount(groupedDocuments, tab) ==
  IF Has(groupedDocuments, tab) THEN Len(groupedDocuments[tab]) ELSE 0

\* C3: with zero or several records validateSingleDocument returns the one
\* finding with the supplied message, the tab and no row, and evaluates no
\* rule; with one record it returns what validateFields returns for that
\* record at row 2.
SingleDocumentCardinality ==
  op = "validateSingleDocument" =>
    IF RecordCount(args.groupedDocuments, args.tab) = 1
      THEN /\ result = validateFields(args.validations,
                                      args.groupedDocuments[args.tab][1].content,
                                      args.tab, Num(2 * Scale), args.context, seen)
           /\ \A i \in DOMAIN result.valog : result.valog[i].row = Num(2 * Scale)
      ELSE /\ ~result.raised
           /\ result.valog = <<[message |-> args.message, tab |-> args.tab,
                                row |-> Undefined]>>
           /\ result.evals = <<>>

\* C3 witness: the single record sits at source row 3 and its finding is
\* reported at row 2.
SingleRecordReportedAtRowTwo ==
  /\ op = "validateSingleDocument"
  /\ RecordCount(args.groupedDocuments, args.tab) = 1
  /\ args.groupedDocuments[args.tab][1].sourceRow = Num(3 * Scale)
  /\ Len(result.valog) = 2
  /\ result.valog[1].row = Num(2 * Scale)

\* ---- C4 ----

\* The pairs (record position, rule position) of the run in args whose rule
\* applies and whose predicate fails.
FailingPairs ==
  IF ~Has(args.groupedDocuments, args.tab) THEN {}
  ELSE {p \in (DOMAIN args.groupedDocuments[args.tab]) \X (DOMAIN args.validations) :
          LET content == args.groupedDocuments[args.tab][p[1]].content
              rule    == args.validations[p[2]]
          IN  /\ Applicable(rule, args.context)
              /\ Apply(rule.validator, FieldValue(content, rule.key), content,
                       args.context, seen).ret = False}

\* Position of a pair among the failing pairs: by record, then by rule.
Rank(p) ==
  1 + Cardinality({q \in FailingPairs :
                     q[1] < p[1] \/ (q[1] = p[1] /\ q[2] < p[2])})

\* C4: validateDocuments returns one finding for each pair (record, applicable
\* rule) whose predicate fails and nothing else, by record position and then
\* by rule position, each with the tab and the record's source row.
DocumentsFindingsInOrder ==
  (op = "validateDocuments" /\ ~result.raised) =>
    /\ Len(result.valog) = Cardinality(FailingPairs)
    /\ \A p \in FailingPairs :
         LET document == args.groupedDocuments[args.tab][p[1]]
             rule     == args.validations[p[2]]
             finding  == result.valog[Rank(p)]
         IN  /\ finding.tab = args.tab
             /\ finding.row = document.sourceRow
             /\ finding.message =
                  addValueToMessage(IF Has(rule, "message") THEN rule.message
                                                            ELSE DefaultMessage(rule.key),
                                    FieldValue(document.content, rule.key))

\* C4 witness: three records under three rules; the first fails one rule, the
\* second and the third fail the first and the last rule; the five findings
\* come by record and then by rule, each at its record's row.
FindingsOfSeveralRecords ==
  /\ op = "validateDocuments"
  /\ ~result.raised
  /\ RecordCount(args.groupedDocuments, args.tab) = 3
  /\ FailingPairs = {<<1, 2>>, <<2, 1>>, <<2, 3>>, <<3, 1>>, <<3, 3>>}
  /\ Len(result.valog) = 5
  /\ result.valog[1].row = Num(3 * Scale)
  /\ result.valog[2].row = Num(4 * Scale)
  /\ result.valog[3].row = Num(4 * Scale)
  /\ result.valog[2].message # result.valog[3].message
  /\ result.valog[5].row = Num(5 * Scale)

\* ---- C5 ----

Runs == {"validateFields", "validateDocuments", "validateSingleDocument", "validateData"}

\* C5: no predicate raises: called on a field value it returns a boolean, and
\* every validation run returns its list of findings.
NoPredicateRaises ==
  /\ op = "predicate" => result.ret \in {True, False}
  /\ op \in Runs => ~result.raised

\* ---- C6 ----

\* C6: the runs of validateData on the same arguments return the same
\* findings, whenever the dropdown table is initialized.
RetryReturnsSameFindings ==
  op = "validateData" =>
    \A i, j \in DOMAIN runs :
      /\ runs[i].raised = runs[j].raised
      /\ runs[i].valog = runs[j].valog

\* ---- C7 ----

\* What a summary adds to the cumulative amount: its number, 0 without one.
Contribution(v) == LET x == ToNumber(v) IN IF IsNum(x) THEN x.n ELSE 0

RECURSIVE SumOfMatching(_, _)
SumOfMatching(summaries, filter) ==
  IF summaries = <<>> THEN 0
  ELSE (IF Matches(filter, Head(summaries))
          THEN Contribution(Get(Head(summaries), CurrentKey(args.key))) ELSE 0)
       + SumOfMatching(Tail(summaries), filter)

\* C7: cumulativeAmountIsEqual holds exactly when the value, rounded, is the
\* rounded sum of the record's amount and of the current amounts of the
\* matching summaries, a summary without a numeric amount adding 0.
CumulativeAmountIsSumOfPeriods ==
  op = "cumulativeAmountIsEqual" =>
    LET total == Contribution(Get(args.content, args.key))
                   + SumOfMatching(args.context.periodSummaries, args.filter)
    IN  result.ret = Bool(NumEq(Round2(args.val), Num(RoundHalfUp(total))))

\* ---- C8 ----

\* The amounts of the call in args written as numbers.
AsNumbers ==
  Object([amount1 |-> Num(args.a), amount2 |-> SecondColumn("number", args.b)])

\* C8: with c = round(a + b, 2), isSum holds at c and fails at every value
\* 0.01 or more away from c; a falsy column name is skipped, a missing or
\* non-numeric column counts as 0, and decimal strings give what numbers give.
IsSumIsRoundedSum ==
  op = "isSum" =>
    LET c == RoundHalfUp(args.a + args.b.n)
    IN  /\ args.v = c => result.ret = True
        /\ Abs(args.v - c) >= Cent => result.ret = False
        /\ result.ret = isSum(<<"amount1", "amount2">>, Num(args.v), AsNumbers)

\* C8 witness: 0.004 + 0.001, given as strings, rounds up to 0.01 and isSum
\* holds at "0.01".
StringSumRoundsUp ==
  /\ op = "isSum"
  /\ args.form = "string"
  /\ args.b.kind = "amount"
  /\ args.a + args.b.n = Cent \div 2
  /\ args.a # 0
  /\ args.b.n # 0
  /\ args.v = Cent
  /\ result.ret = True

\* ---- C9 ----

\* The value names the United States, in any case.
DenotesUnitedStates(v) == IsStr(v) /\ ToLowerCase(v.s) \in {Usa, UnitedStates}

\* C9: whenUS returns what its validator returns when record[key] names the
\* United States in any case, and true without invoking it otherwise (stated
\* for the validators that return on the value).
WhenUSIsCaseInsensitive ==
  (/\ op = "predicate"
   /\ args.validator.p = "whenUS"
   /\ Apply(args.validator.inner, args.val, args.content, args.context, seen).ret
        \in {True, False}) =>
    IF DenotesUnitedStates(Get(args.content, args.validator.key))
      THEN result.ret = Apply(args.validator.inner, args.val, args.content,
                              args.context, seen).ret
      ELSE result = [ret |-> True, calls |-> <<"whenUS">>]

\* ---- C10 ----

\* C10: a predicate is handed the record's own value when the record has the
\* field, the number 0 included, and "" when it has not; so a field holding 0
\* yields no finding for isNotBlank.
PredicateGetsOwnValue ==
  op = "validateFields" =>
    /\ \A i \in DOMAIN result.evals :
         result.evals[i].val =
           IF Has(args.content, result.evals[i].key)
             THEN args.content[result.evals[i].key] ELSE Str(<<>>)
    /\ (/\ args.requiredFields = <<RuleAmount>>
        /\ Has(args.content, "amount")
        /\ args.content.amount = Num(0)) => result.valog = <<>>
====
